---- MODULE Spec2Model ----
(***************************************************************************)
(* The visit counter of synchro (src/main.go) and the three handlers that  *)
(* increment it: visitWithMutex, visitWithAtomic and visitWithChannel.     *)
(*                                                                         *)
(* Two harnesses drive the handlers:                                       *)
(*   "test"  one handler built on its own counter and invoked by          *)
(*           goroutines one after another or concurrently, as the         *)
(*           functions of src/visits_test.go do;                          *)
(*   "main"  the service of main(): the three handlers registered on one  *)
(*           router and requests arriving for any of them.                *)
(*                                                                         *)
(* A statement that touches shared memory is one step.  `*visits++` is a   *)
(* load followed by a store; atomic.AddUint64 is one step.                 *)
(* The counter is a uint64; the model never performs more than MaxReq      *)
(* increments from 0, so the wrap at 2^64 is out of reach and + 1 is not   *)
(* reduced.                                                                *)
(***************************************************************************)
EXTENDS Integers, Sequences, FiniteSets, TLC

\* Number of handler invocations (goroutines of a test, requests of main).
MaxReq == 3

Reqs == 1..MaxReq

\* Number of requests main's server serves at the same time.
MaxInFlight == 2

Strategies == {"mutex", "atomic", "channel"}

\* The only counter variable main declares (and each test declares one).
Cells == {"visits"}

\* The nil pointer.
NIL == "nil"

\* cap of make(chan *uint64, 1)
ChanCap == 1

\* http.StatusOK, the status a first Write sends when WriteHeader was not
\* called.
StatusOK == 200

VARIABLES
    harness,    \* "test" or "main"
    sequential, \* test harness: TRUE = the for loop, FALSE = the goroutines
    seeded,     \* whether `ch <- &visits` ran before the handlers were used
    ctr,        \* ctr[s]: the *uint64 handed to strategy s's handler
    mem,        \* mem[c]: the value of counter variable c
    mu,         \* sync.Mutex: 0 when unlocked, else the invocation that locked it
    ch,         \* the buffered channel's queue of pointers
    closed,     \* close(ch) has run
    exited,     \* os.Exit has run (log.Fatal in main)
    endpoint,   \* endpoint[p]: the strategy invocation p runs, "none" before the call
    pc,         \* pc[p]: the statement invocation p executes next
    tok,        \* tok[p]: visitWithChannel's local `visits` (the received pointer)
    tmp,        \* tmp[p]: the value `*visits++` loaded
    current,    \* current[p]: the local `current` (for the channel: what Sprintf read)
    message,    \* message[p]: the local `message`
    body,       \* body[p]: what was written to the ResponseWriter
    status      \* status[p]: the status code sent with it, 0 while nothing was sent

vars == <<harness, sequential, seeded, ctr, mem, mu, ch, closed, exited,
          endpoint, pc, tok, tmp, current, message, body, status>>

config == <<harness, sequential, seeded, ctr>>

----------------------------------------------------------------------------
(* fmt.Sprintf("Olá! Você teve %d visitas.", n): a string is a sequence of *)
(* pieces, the prefix, one piece per decimal digit, the suffix.            *)

DigitChars == <<"0", "1", "2", "3", "4", "5", "6", "7", "8", "9">>

RECURSIVE FormatUint(_)
FormatUint(n) ==
    IF n < 10 THEN <<DigitChars[n + 1]>>
    ELSE FormatUint(n \div 10) \o <<DigitChars[(n % 10) + 1]>>

Prefix == "Olá! Você teve "
Suffix == " visitas."

Sprintf(n) == <<Prefix>> \o FormatUint(n) \o <<Suffix>>

\* Reading the %d back out of a message (what a client of the service does).
DigitValue(c) == (CHOOSE i \in 1..10 : DigitChars[i] = c) - 1

RECURSIVE ParseUint(_)
ParseUint(s) ==
    IF Len(s) = 0 THEN 0
    ELSE 10 * ParseUint(SubSeq(s, 1, Len(s) - 1)) + DigitValue(s[Len(s)])

CountOf(msg) == ParseUint(SubSeq(msg, 2, Len(msg) - 1))

\* No response written (an empty recorder body).
NoBody == <<>>

----------------------------------------------------------------------------
(* Initial states.                                                         *)

InitLocals ==
    /\ mem = [c \in Cells |-> 0]
    /\ mu = 0
    /\ closed = FALSE
    /\ exited = FALSE
    /\ endpoint = [p \in Reqs |-> "none"]
    /\ pc = [p \in Reqs |-> "idle"]
    /\ tok = [p \in Reqs |-> NIL]
    /\ tmp = [p \in Reqs |-> 0]
    /\ current = [p \in Reqs |-> 0]
    /\ message = [p \in Reqs |-> NoBody]
    /\ body = [p \in Reqs |-> NoBody]
    /\ status = [p \in Reqs |-> 0]

\* A test builds one handler: visitWithX(&visits, ...), the pointer being a
\* parameter of the constructor (nil included), and for the channel either
\* seeds it with that pointer or leaves it empty.  TestHealthCheck builds
\* none and calls healthCheck.
InitTest ==
    /\ harness = "test"
    /\ sequential \in BOOLEAN
    /\ \E s \in Strategies \cup {"health"}, ptr \in Cells \cup {NIL} :
          /\ ctr = [t \in Strategies |-> IF t = s THEN ptr ELSE "unused"]
          /\ seeded \in (IF s = "channel" THEN BOOLEAN ELSE {FALSE})
          /\ ch = IF seeded THEN <<ptr>> ELSE <<>>
    /\ InitLocals

\* main(): one `visits`, sent into ch and handed to the mutex and the atomic
\* handler alike.
InitMain ==
    /\ harness = "main"
    /\ sequential = FALSE
    /\ seeded = TRUE
    /\ ctr = [t \in Strategies |-> "visits"]
    /\ ch = <<"visits">>
    /\ InitLocals

Init == InitTest \/ InitMain

----------------------------------------------------------------------------
(* The handlers.                                                           *)

\* The handlers that were constructed: one in a test, all three in main.
Built == {s \in Strategies : ctr[s] # "unused"}

\* The handlers that requests reach: mux.Get registers healthCheck and the
\* three visit handlers in main; a test calls the one handler it is about.
Routes ==
    IF harness = "main" THEN Built \cup {"health"}
    ELSE IF Built = {} THEN {"health"} ELSE Built

\* The first statement of each handler body.
Entry(s) == CASE s = "mutex"   -> "lock"
              [] s = "atomic"  -> "add"
              [] s = "channel" -> "recv"
              [] s = "health"  -> "hello"

\* The pointer invocation p dereferences: the closure's `visits` for the
\* mutex and the atomic handler, the received pointer for the channel one.
Ptr(p) == IF endpoint[p] = "channel" THEN tok[p] ELSE ctr[endpoint[p]]

\* An invocation that has returned or was unwound by a panic.  A panic ends
\* the invocation where it is raised, without running the statements after
\* it; the other invocations go on (main recovers it in middleware.Recoverer).
Finished(p) == pc[p] \in {"done", "panicked"}

\* Invocations are numbered in the order they are launched: the tests' loops
\* run `handler(w, req)` or `go func() {...}()` for i = 0, 1, ..., and main's
\* requests are numbered as they arrive.  The sequential loop also waits
\* for the call to return before the next iteration.
MayCall(p) ==
    \A q \in Reqs : q < p => IF sequential THEN Finished(q) ELSE pc[q] # "idle"

\* The invocations that were launched and have not finished.
InFlight == {q \in Reqs : pc[q] # "idle" /\ ~Finished(q)}

\* A test launches all its goroutines; main's server has at most MaxInFlight
\* requests open at a time.
HasRoom == harness = "main" => Cardinality(InFlight) < MaxInFlight

\* handler(w, req): a goroutine of a test or a request routed by mux.
Call(p) ==
    /\ ~exited
    /\ pc[p] = "idle"
    /\ MayCall(p)
    /\ HasRoom
    /\ \E s \in Routes :
          /\ endpoint' = [endpoint EXCEPT ![p] = s]
          /\ pc' = [pc EXCEPT ![p] = Entry(s)]
    /\ UNCHANGED <<config, mem, mu, ch, closed, exited, tok, tmp, current,
                   message, body, status>>

\* Mutant of CanLock: Lock() that never waits.
CanLock_NeverWaits == TRUE

\* mu.Lock() blocks while the mutex is locked.
CanLock == mu = 0

\* visitWithMutex: mu.Lock()
MutexLock(p) ==
    /\ ~exited
    /\ pc[p] = "lock"
    /\ CanLock
    /\ mu' = p
    /\ pc' = [pc EXCEPT ![p] = "load"]
    /\ UNCHANGED <<config, mem, ch, closed, exited, endpoint, tok, tmp,
                   current, message, body, status>>

\* `*visits++`, first half: load *visits (a nil pointer panics here).
IncLoad(p) ==
    /\ ~exited
    /\ pc[p] = "load"
    /\ IF Ptr(p) = NIL
       THEN /\ pc' = [pc EXCEPT ![p] = "panicked"]
            /\ tmp' = tmp
       ELSE /\ tmp' = [tmp EXCEPT ![p] = mem[Ptr(p)]]
            /\ pc' = [pc EXCEPT ![p] = "store"]
    /\ UNCHANGED <<config, mem, mu, ch, closed, exited, endpoint, tok,
                   current, message, body, status>>

\* Mutant of Incremented: the store writes the loaded value back.
Incremented_Same(v) == v

\* What `*visits++` stores for a loaded value.
Incremented(v) == v + 1

\* `*visits++`, second half: store the loaded value plus one.
IncStore(p) ==
    /\ ~exited
    /\ pc[p] = "store"
    /\ mem' = [mem EXCEPT ![Ptr(p)] = Incremented(tmp[p])]
    /\ pc' = [pc EXCEPT ![p] = IF endpoint[p] = "mutex" THEN "read" ELSE "sprintf"]
    /\ UNCHANGED <<config, mu, ch, closed, exited, endpoint, tok, tmp,
                   current, message, body, status>>

\* visitWithMutex: current := *visits
ReadCurrent(p) ==
    /\ ~exited
    /\ pc[p] = "read"
    /\ current' = [current EXCEPT ![p] = mem[Ptr(p)]]
    /\ pc' = [pc EXCEPT ![p] = "unlock"]
    /\ UNCHANGED <<config, mem, mu, ch, closed, exited, endpoint, tok, tmp,
                   message, body, status>>

\* Mutant of MutexUnlock: the handler goes on to reply with the mutex locked.
MutexUnlock_Skipped(p) ==
    /\ ~exited
    /\ pc[p] = "unlock"
    /\ pc' = [pc EXCEPT ![p] = "format"]
    /\ UNCHANGED <<config, mem, mu, ch, closed, exited, endpoint, tok, tmp,
                   current, message, body, status>>

\* visitWithMutex: mu.Unlock()
MutexUnlock(p) ==
    /\ ~exited
    /\ pc[p] = "unlock"
    /\ mu' = 0
    /\ pc' = [pc EXCEPT ![p] = "format"]
    /\ UNCHANGED <<config, mem, ch, closed, exited, endpoint, tok, tmp,
                   current, message, body, status>>

\* Mutant of AddResult: the value before the add (a fetch-and-add).
AddResult_Old(old) == old

\* What atomic.AddUint64(addr, 1) returns: the new value.
AddResult(old) == old + 1

\* Mutant of AtomicAdd: an add that waits for the visits mutex to be free.
AtomicAdd_Locked(p) ==
    /\ ~exited
    /\ pc[p] = "add"
    /\ mu = 0
    /\ IF Ptr(p) = NIL
       THEN /\ pc' = [pc EXCEPT ![p] = "panicked"]
            /\ UNCHANGED <<mem, current>>
       ELSE /\ mem' = [mem EXCEPT ![Ptr(p)] = mem[Ptr(p)] + 1]
            /\ current' = [current EXCEPT ![p] = AddResult(mem[Ptr(p)])]
            /\ pc' = [pc EXCEPT ![p] = "format"]
    /\ UNCHANGED <<config, mu, ch, closed, exited, endpoint, tok, tmp,
                   message, body, status>>

\* visitWithAtomic: current := atomic.AddUint64(visits, 1), one step
\* (a nil address panics).
AtomicAdd(p) ==
    /\ ~exited
    /\ pc[p] = "add"
    /\ IF Ptr(p) = NIL
       THEN /\ pc' = [pc EXCEPT ![p] = "panicked"]
            /\ UNCHANGED <<mem, current>>
       ELSE /\ mem' = [mem EXCEPT ![Ptr(p)] = mem[Ptr(p)] + 1]
            /\ current' = [current EXCEPT ![p] = AddResult(mem[Ptr(p)])]
            /\ pc' = [pc EXCEPT ![p] = "format"]
    /\ UNCHANGED <<config, mu, ch, closed, exited, endpoint, tok, tmp,
                   message, body, status>>

\* visitWithMutex, visitWithAtomic: message := fmt.Sprintf(..., current)
SprintfCurrent(p) ==
    /\ ~exited
    /\ pc[p] = "format"
    /\ message' = [message EXCEPT ![p] = Sprintf(current[p])]
    /\ pc' = [pc EXCEPT ![p] = "write"]
    /\ UNCHANGED <<config, mem, mu, ch, closed, exited, endpoint, tok, tmp,
                   current, body, status>>

\* Mutant of CanRecv: a receive that does not wait for a value.
CanRecv_NeverWaits == TRUE

\* `<-ch` blocks while the channel is open and empty; on a closed and
\* drained channel it yields the zero value, nil.
CanRecv == Len(ch) > 0 \/ closed

\* Mutant of ChanRecv: a receive that leaves the value in the buffer.
ChanRecv_Peek(p) ==
    /\ ~exited
    /\ pc[p] = "recv"
    /\ CanRecv
    /\ tok' = [tok EXCEPT ![p] = IF Len(ch) > 0 THEN Head(ch) ELSE NIL]
    /\ pc' = [pc EXCEPT ![p] = "load"]
    /\ UNCHANGED <<config, mem, mu, ch, closed, exited, endpoint, tmp,
                   current, message, body, status>>

\* visitWithChannel: visits := <-ch
ChanRecv(p) ==
    /\ ~exited
    /\ pc[p] = "recv"
    /\ CanRecv
    /\ tok' = [tok EXCEPT ![p] = IF Len(ch) > 0 THEN Head(ch) ELSE NIL]
    /\ ch' = IF Len(ch) > 0 THEN Tail(ch) ELSE ch
    /\ pc' = [pc EXCEPT ![p] = "load"]
    /\ UNCHANGED <<config, mem, mu, closed, exited, endpoint, tmp, current,
                   message, body, status>>

\* visitWithChannel: message := fmt.Sprintf(..., *visits), a second load of
\* the counter, made while the token is held.
SprintfDeref(p) ==
    /\ ~exited
    /\ pc[p] = "sprintf"
    /\ current' = [current EXCEPT ![p] = mem[Ptr(p)]]
    /\ message' = [message EXCEPT ![p] = Sprintf(mem[Ptr(p)])]
    /\ pc' = [pc EXCEPT ![p] = "send"]
    /\ UNCHANGED <<config, mem, mu, ch, closed, exited, endpoint, tok, tmp,
                   body, status>>

\* `ch <- v` panics on a closed channel and otherwise blocks while the
\* buffer is full.
CanSend == closed \/ Len(ch) < ChanCap

\* Mutant of ChanSend: the handler goes on without returning the token.
ChanSend_Dropped(p) ==
    /\ ~exited
    /\ pc[p] = "send"
    /\ pc' = [pc EXCEPT ![p] = "write"]
    /\ UNCHANGED <<config, mem, mu, ch, closed, exited, endpoint, tok, tmp,
                   current, message, body, status>>

\* visitWithChannel: ch <- visits
ChanSend(p) ==
    /\ ~exited
    /\ pc[p] = "send"
    /\ CanSend
    /\ ch' = IF closed THEN ch ELSE Append(ch, tok[p])
    /\ pc' = [pc EXCEPT ![p] = IF closed THEN "panicked" ELSE "write"]
    /\ UNCHANGED <<config, mem, mu, closed, exited, endpoint, tok, tmp,
                   current, message, body, status>>

\* io.WriteString(w, message), then the handler returns.
WriteString(p) ==
    /\ ~exited
    /\ pc[p] = "write"
    /\ body' = [body EXCEPT ![p] = message[p]]
    /\ status' = [status EXCEPT ![p] = StatusOK]
    /\ pc' = [pc EXCEPT ![p] = "done"]
    /\ UNCHANGED <<config, mem, mu, ch, closed, exited, endpoint, tok, tmp,
                   current, message>>

\* The body healthCheck writes.
HealthBody == <<"Hello, world!\n">>

\* Mutant of HealthCheck: a health check that takes the visits mutex first.
HealthCheck_Locked(p) ==
    /\ ~exited
    /\ pc[p] = "hello"
    /\ mu = 0
    /\ body' = [body EXCEPT ![p] = HealthBody]
    /\ status' = [status EXCEPT ![p] = StatusOK]
    /\ pc' = [pc EXCEPT ![p] = "done"]
    /\ UNCHANGED <<config, mem, mu, ch, closed, exited, endpoint, tok, tmp,
                   current, message>>

\* healthCheck: io.WriteString(w, "Hello, world!\n"), then it returns.
HealthCheck(p) ==
    /\ ~exited
    /\ pc[p] = "hello"
    /\ body' = [body EXCEPT ![p] = HealthBody]
    /\ status' = [status EXCEPT ![p] = StatusOK]
    /\ pc' = [pc EXCEPT ![p] = "done"]
    /\ UNCHANGED <<config, mem, mu, ch, closed, exited, endpoint, tok, tmp,
                   current, message>>

\* Mutant of WriteFails: a failed write takes the visit back.
WriteFails_Rollback(p) ==
    /\ ~exited
    /\ pc[p] \in {"write", "hello"}
    /\ pc' = [pc EXCEPT ![p] = "done"]
    /\ mem' = [c \in Cells |-> IF pc[p] = "write" /\ mem[c] > 0
                                THEN mem[c] - 1 ELSE mem[c]]
    /\ UNCHANGED <<config, mu, ch, closed, exited, endpoint, tok, tmp,
                   current, message, body, status>>

\* io.WriteString fails (w is a ResponseWriter whose client went away or
\* whose WriteTimeout fired): nothing is sent, the handlers ignore the
\* returned error and return.
WriteFails(p) ==
    /\ ~exited
    /\ pc[p] \in {"write", "hello"}
    /\ pc' = [pc EXCEPT ![p] = "done"]
    /\ UNCHANGED <<config, mem, mu, ch, closed, exited, endpoint, tok, tmp,
                   current, message, body, status>>

----------------------------------------------------------------------------
(* The lifecycles around the handlers.                                     *)

\* Mutant of WgWait: the test returns without waiting for its goroutines.
WgWait_NoWait == TRUE

\* wg.Wait() returns when every goroutine ran its deferred wg.Done(); the
\* sequential loop has returned from its last call.  (A goroutine that
\* panics takes the test process down before the deferred close.)
WgWait == \A p \in Reqs : pc[p] = "done"

\* The tests' `defer close(ch)`, run when the test function returns.
TestClose ==
    /\ harness = "test"
    /\ "channel" \in Built
    /\ ~closed
    /\ WgWait
    /\ closed' = TRUE
    /\ UNCHANGED <<config, mem, mu, ch, exited, endpoint, pc, tok, tmp,
                   current, message, body, status>>

\* main: log.Fatal(s.ListenAndServe()).  ListenAndServe returns only with
\* an error, at any time; log.Fatal prints it and calls os.Exit(1), which
\* ends the process and every handler goroutine without running main's
\* deferred close(ch).
LogFatal ==
    /\ harness = "main"
    /\ ~exited
    /\ exited' = TRUE
    /\ UNCHANGED <<config, mem, mu, ch, closed, endpoint, pc, tok, tmp,
                   current, message, body, status>>

Step(p) ==
    \/ Call(p)
    \/ MutexLock(p)
    \/ IncLoad(p)
    \/ IncStore(p)
    \/ ReadCurrent(p)
    \/ MutexUnlock(p)
    \/ AtomicAdd(p)
    \/ SprintfCurrent(p)
    \/ ChanRecv(p)
    \/ SprintfDeref(p)
    \/ ChanSend(p)
    \/ WriteString(p)
    \/ HealthCheck(p)

Next ==
    \/ \E p \in Reqs : Step(p)
    \/ TestClose
    \/ LogFatal

Spec == Init /\ [][Next]_vars

\* The handlers' steps alone, as a test drives them.
NextTest ==
    \/ \E p \in Reqs : Step(p)
    \/ TestClose

\* Go's scheduler runs every runnable goroutine eventually, and a test
\* function runs to its end.
Fairness ==
    /\ \A p \in Reqs : WF_vars(Step(p))
    /\ WF_vars(TestClose)

FairSpec == InitTest /\ [][NextTest]_vars /\ Fairness

\* One handler invoked with ResponseWriters that may fail.
NextLossy ==
    \/ \E p \in Reqs : Step(p)
    \/ \E p \in Reqs : WriteFails(p)
    \/ TestClose

LossySpec == InitTest /\ [][NextLossy]_vars

----------------------------------------------------------------------------
(* Vocabulary of the properties.                                           *)

Completed == {p \in Reqs : pc[p] = "done"}

AllDone == \A p \in Reqs : pc[p] = "done"

\* No invocation is under way.
Quiescent == InFlight = {}

\* The count a written response embeds.
Counts(P) == {CountOf(body[p]) : p \in P}

\* One handler on a freshly declared counter that no other handler uses,
\* the channel seeded with the pointer to it.
OwnCounter ==
    /\ harness = "test"
    /\ Built # {}
    /\ \A s \in Built : ctr[s] \in Cells
    /\ "channel" \in Built => seeded

\* The counter strategy s works on.
CounterOf(s) == mem[ctr[s]]

\* Invocation p has received the token and not sent it back.
HoldsToken(p) ==
    /\ endpoint[p] = "channel"
    /\ pc[p] \in {"load", "store", "sprintf", "send"}

\* Invocation p panicked in `ch <- visits` (it had received a pointer).
SentOnClosed(p) ==
    /\ endpoint[p] = "channel"
    /\ pc[p] = "panicked"
    /\ tok[p] # NIL

----------------------------------------------------------------------------
(* Properties.                                                             *)

\* C1: no lost updates.  For each strategy, when the invocations launched
\* concurrently on a handler's own fresh counter have all completed, the
\* counter equals their number.
C1_NoLostUpdates ==
    (OwnCounter /\ ~sequential /\ Quiescent)
        => \A s \in Built : CounterOf(s) = Cardinality(Completed)

C1_Witness ==
    /\ OwnCounter /\ ~sequential /\ AllDone
    /\ Built = {"mutex"}
    /\ CounterOf("mutex") = MaxReq

\* C2: for each strategy, the counts embedded in the responses of the N
\* completed concurrent invocations are pairwise distinct and are exactly
\* 1..N.
C2_UniqueGapFree ==
    (OwnCounter /\ ~sequential /\ Quiescent)
        => /\ Counts(Completed) = 1..Cardinality(Completed)
           /\ \A p, q \in Completed :
                 p # q => CountOf(body[p]) # CountOf(body[q])

C2_Witness ==
    /\ OwnCounter /\ ~sequential /\ AllDone
    /\ Built = {"atomic"}
    /\ Counts(Reqs) = 1..MaxReq
    /\ CountOf(body[1]) = MaxReq

\* C3: sequential counting.  For each strategy, the i-th of the calls made
\* one after another on a fresh counter embeds i, and the counter equals i
\* when it has returned and the next call has not begun.
C3_Sequential ==
    (OwnCounter /\ sequential)
        => \A i \in Reqs :
              pc[i] = "done"
                 => /\ CountOf(body[i]) = i
                    /\ (\A j \in Reqs : j > i => pc[j] = "idle")
                          => \A s \in Built : CounterOf(s) = i

C3_Witness ==
    /\ OwnCounter /\ sequential /\ AllDone
    /\ Built = {"channel"}
    /\ CountOf(body[MaxReq]) = MaxReq
    /\ CounterOf("channel") = MaxReq

\* C4: in the service of main each strategy has a counter of its own: a
\* step of a request served by one endpoint leaves the counters of the other
\* two strategies unchanged.
C4_IndependentCounters ==
    [][harness = "main"
          => \A p \in Reqs : \A s \in Strategies :
                (pc'[p] # pc[p] /\ endpoint'[p] # s)
                    => CounterOf(s)' = CounterOf(s)]_vars

C6_Monotonic ==
    [][harness = "main" => \A c \in Cells : mem'[c] >= mem[c]]_vars

\* C7: with the channel seeded with one pointer to the counter, every one of
\* the launched visitWithChannel invocations eventually completes, and before
\* they have all completed some invocation can always take a step.
C7_ChannelTerminates ==
    (OwnCounter /\ Built = {"channel"})
        => /\ <>AllDone
           /\ [](~AllDone => \E p \in Reqs : ENABLED Step(p))

C7_Witness ==
    /\ OwnCounter /\ Built = {"channel"} /\ ~sequential
    /\ AllDone
    /\ ~closed
    /\ ch = <<"visits">>

\* C8: with a channel that was never seeded, every invocation of
\* visitWithChannel stays at the receive, which cannot proceed; none writes
\* a response and the counter keeps its value.
C8_UnseededBlocks ==
    (harness = "test" /\ Built = {"channel"} /\ ~seeded)
        => /\ ~CanRecv
           /\ \A p \in Reqs :
                 /\ pc[p] \in {"idle", "recv"}
                 /\ body[p] = NoBody
           /\ \A c \in Cells : mem[c] = 0

C8_Witness ==
    /\ harness = "test" /\ Built = {"channel"} /\ ~seeded
    /\ \A p \in Reqs : pc[p] = "recv"

\* C9: when the channel is closed no invocation holds the token, and no
\* invocation has sent on the closed channel, in the tests' lifecycle and in
\* main's.
C9_SafeTeardown ==
    closed => \A p \in Reqs : ~HoldsToken(p) /\ ~SentOnClosed(p)

C9_Witness ==
    /\ closed
    /\ AllDone
    /\ ~sequential
    /\ ch = <<"visits">>

\* C10: an invocation of visitWithMutex that has left its critical section,
\* by returning or by a panic, does not leave the mutex locked.
C10_LockReleased ==
    \A p \in Reqs :
        (endpoint[p] = "mutex" /\ Finished(p)) => mu # p

\* The value invocation p's own increment produced: what AddUint64 returned,
\* or what `*visits++` stored.
Obtained(p) == IF endpoint[p] = "atomic" THEN current[p] ELSE tmp[p] + 1

\* The step in which invocation p performs its increment.
IncrementStep(p) ==
    /\ pc[p] \in {"store", "add"}
    /\ pc'[p] \notin {pc[p], "panicked"}

\* C11: each strategy on its own counter refines the atomic operation
\* `counter := counter + 1; return counter`: a step either leaves the counter
\* alone or is the increment step of one invocation, which raises it by one
\* and obtains the new value, and the count an invocation reports is the
\* value it obtained.
C11_RefinesAtomicIncrement ==
    /\ [][OwnCounter
            => \A s \in Built :
                  IF \E p \in Reqs : IncrementStep(p)
                  THEN \E p \in Reqs :
                          /\ IncrementStep(p)
                          /\ CounterOf(s)' = CounterOf(s) + 1
                          /\ Obtained(p)' = CounterOf(s)'
                  ELSE CounterOf(s)' = CounterOf(s)]_vars
    /\ [](OwnCounter
            => \A p \in Completed : CountOf(body[p]) = Obtained(p))

C11_Witness ==
    /\ OwnCounter /\ ~sequential /\ AllDone
    /\ Built = {"mutex"}
    /\ CountOf(body[1]) = MaxReq
    /\ Obtained(1) = MaxReq

C13_HealthCheckPure ==
    /\ [](\A p \in Reqs :
             endpoint[p] = "health"
                => /\ (pc[p] = "hello" /\ ~exited) => ENABLED HealthCheck(p)
                   /\ pc[p] = "done"
                         => /\ status[p] = 200
                            /\ body[p] = <<"Hello, world!\n">>)
    /\ [][\A p \in Reqs :
             (endpoint[p] = "health" /\ pc'[p] # pc[p])
                => UNCHANGED <<mem, mu, ch, closed>>]_vars

C13_Witness ==
    /\ harness = "main"
    /\ \E p, q \in Reqs :
          /\ q < p
          /\ endpoint[p] = "health" /\ pc[p] = "done"
          /\ status[p] = 200 /\ body[p] = <<"Hello, world!\n">>
          /\ mu = q
          /\ mem["visits"] > 0

\* C14: a pending visitWithAtomic invocation can always take its increment
\* step, whoever holds the mutex or the token, and that one step raises the
\* counter by one and yields the new value.
C14_AtomicNeverBlocks ==
    /\ [](\A p \in Reqs : (pc[p] = "add" /\ ~exited) => ENABLED AtomicAdd(p))
    /\ [][\A p \in Reqs :
             (pc[p] = "add" /\ pc'[p] # "add" /\ Ptr(p) # NIL)
                => /\ pc'[p] = "format"
                   /\ mem'[Ptr(p)] = mem[Ptr(p)] + 1
                   /\ current'[p] = mem'[Ptr(p)]]_vars

C14_Witness ==
    \E p, q \in Reqs :
        /\ endpoint[p] = "atomic" /\ pc[p] = "format"
        /\ mu = q /\ pc[q] = "store"
        /\ current[p] = tmp[q] + 1

\* C15: release before reply.  An invocation that is about to write its
\* response does not hold the mutex, and the token it received is back in
\* the channel or already with another invocation.
C15_ReleaseBeforeReply ==
    \A p \in Reqs :
        pc[p] = "write"
           => /\ mu # p
              /\ endpoint[p] = "channel"
                    => \/ Len(ch) = 1
                       \/ \E q \in Reqs \ {p} : HoldsToken(q)

C15_Witness ==
    \E p, q \in Reqs :
        /\ pc[p] = "write" /\ endpoint[p] = "channel"
        /\ HoldsToken(q) /\ pc[q] = "send"

\* C16: formatting reads only a local copy of the count.  The message a
\* formatting step builds is the format of the invocation's local `current`
\* as it stood before the step, whatever the shared counter holds.
C16_FormatsLocalCopy ==
    [][\A p \in Reqs :
          (pc[p] \in {"format", "sprintf"} /\ pc'[p] # pc[p])
             => message'[p] = Sprintf(current[p])]_vars

\* Invocation p has performed its increment and has not returned.
AfterIncrement(p) ==
    pc[p] \in {"read", "unlock", "format", "sprintf", "send", "write"}

\* Invocation p of a visit handler returned after a write that failed.
Lost(p) ==
    /\ endpoint[p] \in Strategies
    /\ pc[p] = "done"
    /\ status[p] = 0

\* C17: an increment is not undone by a lost response.  No step an
\* invocation takes after its increment changes the counter; an invocation
\* whose write failed has left the mutex unlocked and the token in the
\* channel or with another invocation; and once all launched invocations
\* have returned the counter equals their number, lost responses included.
C17_LostResponseKeepsIncrement ==
    /\ [][\A p \in Reqs :
             (AfterIncrement(p) /\ pc'[p] # pc[p]) => mem' = mem]_vars
    /\ [](\A p \in Reqs :
             Lost(p)
                => /\ mu # p
                   /\ body[p] = NoBody
                   /\ (endpoint[p] = "channel" /\ seeded)
                         => \/ Len(ch) = 1
                            \/ \E q \in Reqs \ {p} : HoldsToken(q))
    /\ []((OwnCounter /\ Quiescent)
             => \A s \in Built : CounterOf(s) = Cardinality(Completed))

C17_Witness ==
    /\ OwnCounter /\ ~sequential /\ AllDone
    /\ Built = {"channel"}
    /\ \A p \in Reqs : Lost(p)
    /\ CounterOf("channel") = MaxReq
    /\ ch = <<"visits">>

\* Invocation p has received from the channel and has not sent back (an
\* invocation that panicked after the receive never sends).
Withdrawn(p) ==
    /\ endpoint[p] = "channel"
    /\ pc[p] \in {"load", "store", "sprintf", "send", "panicked"}

\* C18: token conservation.  For a channel seeded with one token, the tokens
\* in the buffer plus the invocations that received one and have not sent it
\* back are exactly one; so at most one invocation is between its receive
\* and its send, and an invocation at its send finds the buffer empty and
\* can send.
C18_TokenConservation ==
    seeded
        => /\ Len(ch) + Cardinality({p \in Reqs : Withdrawn(p)}) = 1
           /\ Cardinality({p \in Reqs : HoldsToken(p)}) <= 1
           /\ \A p \in Reqs :
                 (pc[p] = "send" /\ ~exited)
                    => /\ Len(ch) = 0
                       /\ ENABLED ChanSend(p)

C18_Witness ==
    /\ seeded
    /\ harness = "main"
    /\ \E p, q \in Reqs :
          /\ pc[p] = "send" /\ pc[q] = "recv"
          /\ ch = <<>>

====
